---- MODULE Spec2Model ----
(***************************************************************************)
(* A model of the ai command line assistant  : the streaming Markdown      *)
(* formatter (MarkdownFormatter in ui/formatter.ts), the prompt path of    *)
(* main (index.ts) and the configuration file (loadConfig, saveConfig,     *)
(* setConfigValue, resetConfig).                                           *)
(*                                                                         *)
(* A JavaScript string is a sequence of characters; a character is a TLA+  *)
(* string of length one, and the characters outside ASCII that the         *)
(* formatter writes are named: ESC (\x1b), BAR, HBAR, CORNER_TOP,          *)
(* CORNER_BOT (box drawing) and BULLET; BT names the backtick.             *)
(***************************************************************************)
EXTENDS Integers, Sequences, FiniteSets, TLC

VARIABLES
    markdown,          \* config.ui.markdown
    uiColors,          \* config.ui.colors
    stdoutIsTTY,       \* process.stdout.isTTY === true
    buffer,            \* MarkdownFormatter.buffer
    inCodeBlock,       \* MarkdownFormatter.inCodeBlock
    codeBlockLang,     \* MarkdownFormatter.codeBlockLang
    codeBlockContent,  \* MarkdownFormatter.codeBlockContent
    todo,              \* text the upstream stream has not delivered yet
    fed,               \* concatenation of the chunks passed to formatChunk
    out,               \* concatenation of the values formatChunk and flush returned
    lastOp,            \* "none", "formatChunk" or "flush": the last call made
    chunk,             \* argument of the last formatChunk call
    ret,               \* value the last call returned
    pre,               \* formatter state before the last call
    lineLog,           \* the lines the last call passed to formatLine
    nFlush,            \* number of flush calls made so far
    flushRun,          \* values returned by the flush calls made since the last formatChunk
    nOpened,           \* number of code blocks opened so far
    nEmitted,          \* number of code blocks emitted so far
    pc,                \* main: the statement it has reached ("api": main is not running)
    spinner,           \* main: "null", "created", "spinning" or "stopped"
    firstChunk,        \* main: the local firstChunk
    hasChunks,         \* main: the local hasChunks
    nFormatters,       \* main: number of MarkdownFormatter instances constructed
    delivered,         \* main: the chunks result.textStream has yielded, in order
    passed,            \* main: the chunks passed to formatter.formatChunk, in order
    stdout,            \* main: everything written to process.stdout
    events,            \* main: the order of its writes and formatter calls
    errorShown,        \* main: handleError has printed its message
    configFile,        \* ~/.config/ai/config.json: whether it exists, and its data
    configOp,          \* the last setConfigValue or resetConfig call and its outcome
    nConfigOps         \* number of setConfigValue and resetConfig calls made so far

fmtVars == <<buffer, inCodeBlock, codeBlockLang, codeBlockContent>>
uiVars == <<markdown, uiColors, stdoutIsTTY>>
cfgVars == <<uiVars, configFile, configOp, nConfigOps>>
histVars == <<todo, fed, out, lastOp, chunk, ret, pre, lineLog, nFlush, flushRun,
              nOpened, nEmitted>>
mainVars == <<pc, spinner, firstChunk, hasChunks, nFormatters, delivered, passed,
              stdout, events, errorShown>>
vars == <<cfgVars, fmtVars, histVars, mainVars>>

----------------------------------------------------------------------------
(* Characters and the colour table                                         *)

ESC == "ESC"
BAR == "BAR"
HBAR == "HBAR"
CORNER_TOP == "CORNER_TOP"
CORNER_BOT == "CORNER_BOT"
BULLET == "BULLET"
NL == "\n"
BT == "BACKTICK"

colors ==
    [ reset        |-> <<ESC, "[", "0", "m">>,
      bold         |-> <<ESC, "[", "1", "m">>,
      dim          |-> <<ESC, "[", "2", "m">>,
      yellow       |-> <<ESC, "[", "3", "3", "m">>,
      cyan         |-> <<ESC, "[", "3", "6", "m">>,
      brightBlack  |-> <<ESC, "[", "9", "0", "m">>,
      brightBlue   |-> <<ESC, "[", "9", "4", "m">>,
      brightCyan   |-> <<ESC, "[", "9", "6", "m">>,
      brightWhite  |-> <<ESC, "[", "9", "7", "m">> ]

----------------------------------------------------------------------------
(* String primitives of JavaScript, positions counted from 1               *)

WhiteSpace == {" ", "\t", "\n", "\r"}
Digits == {"0", "1", "2", "3", "4", "5", "6", "7", "8", "9"}

\* s.slice(from - 1)
sliceFrom(s, from) == SubSeq(s, from, Len(s))

\* s.startsWith(p)
startsWith(s, p) == Len(s) >= Len(p) /\ SubSeq(s, 1, Len(p)) = p

\* s.endsWith(p)
endsWith(s, p) == Len(s) >= Len(p) /\ SubSeq(s, Len(s) - Len(p) + 1, Len(s)) = p

\* s.indexOf(c, from - 1) + 1: the first position >= from holding c, 0 if none
RECURSIVE indexOf(_, _, _)
indexOf(s, c, from) ==
    IF from > Len(s) THEN 0
    ELSE IF s[from] = c THEN from
    ELSE indexOf(s, c, from + 1)

\* the first position >= from where the two-character delimiter d d starts, 0 if none
RECURSIVE indexOfPair(_, _, _)
indexOfPair(s, d, from) ==
    IF from + 1 > Len(s) THEN 0
    ELSE IF s[from] = d /\ s[from + 1] = d THEN from
    ELSE indexOfPair(s, d, from + 1)

RECURSIVE trimStart(_)
trimStart(s) ==
    IF s # <<>> /\ Head(s) \in WhiteSpace THEN trimStart(Tail(s)) ELSE s

RECURSIVE trimEnd(_)
trimEnd(s) ==
    IF s # <<>> /\ s[Len(s)] \in WhiteSpace THEN trimEnd(SubSeq(s, 1, Len(s) - 1)) ELSE s

\* s.trim()
trim(s) == trimEnd(trimStart(s))

\* s.split(NL)
RECURSIVE split(_)
split(s) ==
    LET i == indexOf(s, NL, 1)
    IN  IF i = 0 THEN <<s>>
        ELSE <<SubSeq(s, 1, i - 1)>> \o split(sliceFrom(s, i + 1))

\* parts.join(NL)
RECURSIVE join(_)
join(parts) ==
    IF parts = <<>> THEN <<>>
    ELSE IF Len(parts) = 1 THEN parts[1]
    ELSE parts[1] \o <<NL>> \o join(Tail(parts))

\* number of leading characters of s that belong to the set cs
RECURSIVE spanOf(_, _)
spanOf(s, cs) ==
    IF s # <<>> /\ Head(s) \in cs THEN 1 + spanOf(Tail(s), cs) ELSE 0

\* s contains the contiguous substring p
contains(s, p) ==
    \E i \in 1..(Len(s) - Len(p) + 1) : SubSeq(s, i, i + Len(p) - 1) = p

\* s contains the character c
hasChar(s, c) == \E i \in 1..Len(s) : s[i] = c

----------------------------------------------------------------------------
(* MarkdownFormatter: styling                                              *)

\* Mutant of shouldColorize: the terminal is not consulted
shouldColorizeConfigOnly == uiColors

shouldColorize == uiColors /\ stdoutIsTTY

colorize(text, color) ==
    IF shouldColorize THEN color \o text \o colors.reset ELSE text

----------------------------------------------------------------------------
(* MarkdownFormatter.formatLine: the inline rules.  Each operator is one   *)
(* line.replace(regex, ...) call, matching as the regular expression does: *)
(* leftmost match first, then on from the end of that match.               *)

\* line.replace(/\*\*(.+?)\*\*/g, colorize(text, bold)) with d = "*", and
\* line.replace(/~~(.+?)~~/g, colorize(text, dim)) with d = "~": at the
\* leftmost d d, the lazy group ends at the nearest later d d that leaves it
\* at least one character, none of them a line terminator.
RECURSIVE replaceWrapped(_, _, _)
replaceWrapped(s, d, color) ==
    LET i == indexOfPair(s, d, 1)
        j == IF i = 0 THEN 0 ELSE indexOfPair(s, d, i + 3)
        matched == j # 0 /\ ~hasChar(SubSeq(s, i + 2, j - 1), NL)
    IN  IF i = 0 THEN s
        ELSE IF matched
             THEN SubSeq(s, 1, i - 1) \o colorize(SubSeq(s, i + 2, j - 1), color)
                     \o replaceWrapped(sliceFrom(s, j + 2), d, color)
             ELSE SubSeq(s, 1, i) \o replaceWrapped(sliceFrom(s, i + 1), d, color)

\* Mutant of italicMatch: any text between two asterisks is a match
italicMatchUnguarded(s, i) ==
    LET j == indexOf(s, "*", i + 1)
    IN  IF s[i] = "*" /\ j > i + 1 THEN j ELSE 0

\* /(?<!\*)\*([^*\s]+[^*]*?[^*\s])\*(?!\*)/ tried at position i: the position
\* of the closing asterisk, 0 if the expression does not match there.  The
\* group holds no asterisk, so it ends at the first asterisk after i; it needs
\* two characters or more, the first and the last not white space.
italicMatch(s, i) ==
    LET j == indexOf(s, "*", i + 1)
    IN  IF /\ s[i] = "*"
           /\ (i = 1 \/ s[i - 1] # "*")
           /\ j # 0
           /\ j - i - 1 >= 2
           /\ s[i + 1] \notin WhiteSpace
           /\ s[j - 1] \notin WhiteSpace
           /\ (j = Len(s) \/ s[j + 1] # "*")
        THEN j ELSE 0

\* line.replace(<the italic expression>, '$1'), scanning from position i
RECURSIVE replaceItalic(_, _)
replaceItalic(s, i) ==
    IF i > Len(s) THEN <<>>
    ELSE LET j == italicMatch(s, i)
         IN  IF j # 0
             THEN SubSeq(s, i + 1, j - 1) \o replaceItalic(s, j + 1)
             ELSE <<s[i]>> \o replaceItalic(s, i + 1)

\* line.replace(/BT([^BT]+)BT/g, colorize(code, yellow)), scanning from position i
RECURSIVE replaceInlineCode(_, _)
replaceInlineCode(s, i) ==
    IF i > Len(s) THEN <<>>
    ELSE LET j == indexOf(s, BT, i + 1)
         IN  IF s[i] = BT /\ j >= i + 2
             THEN colorize(SubSeq(s, i + 1, j - 1), colors.yellow)
                     \o replaceInlineCode(s, j + 1)
             ELSE <<s[i]>> \o replaceInlineCode(s, i + 1)

\* line.replace(/\[([^\]]+)\]\([^)]+\)/g, colorize(text, brightBlue)), scanning
\* from position i
RECURSIVE replaceLink(_, _)
replaceLink(s, i) ==
    IF i > Len(s) THEN <<>>
    ELSE LET j == indexOf(s, "]", i + 1)
             k == IF j = 0 THEN 0 ELSE indexOf(s, ")", j + 2)
         IN  IF /\ s[i] = "["
                /\ j >= i + 2
                /\ j + 1 <= Len(s)
                /\ s[j + 1] = "("
                /\ k >= j + 3
             THEN colorize(SubSeq(s, i + 1, j - 1), colors.brightBlue)
                     \o replaceLink(s, k + 1)
             ELSE <<s[i]>> \o replaceLink(s, i + 1)

\* the five inline rules in the order formatLine applies them
inlineTransform(line) ==
    LET bolded == replaceWrapped(line, "*", colors.bold)
        italic == replaceItalic(bolded, 1)
        coded  == replaceInlineCode(italic, 1)
        linked == replaceLink(coded, 1)
    IN  replaceWrapped(linked, "~", colors.dim)

----------------------------------------------------------------------------
(* MarkdownFormatter.formatLine: the block rules                           *)

RuleChars == {"-", "*", "_"}

\* Mutant of isHorizontalRule: four rule characters needed instead of three
isHorizontalRuleFour(line) ==
    LET n == spanOf(line, RuleChars)
    IN  n >= 4 /\ spanOf(sliceFrom(line, n + 1), WhiteSpace) = Len(line) - n

\* originalLine.match(/^[-*_]{3,}\s*$/)
isHorizontalRule(line) ==
    LET n == spanOf(line, RuleChars)
    IN  n >= 3 /\ spanOf(sliceFrom(line, n + 1), WhiteSpace) = Len(line) - n

\* originalLine.match(/^(\s*)\*\s+/): [indent, length of the whole match], or
\* length 0 if there is no match
nestedBulletMatch(line) ==
    LET k == spanOf(line, WhiteSpace)
        m == spanOf(sliceFrom(line, k + 2), WhiteSpace)
    IN  IF k + 1 <= Len(line) /\ line[k + 1] = "*" /\ m >= 1
        THEN [indent |-> SubSeq(line, 1, k), length |-> k + 1 + m]
        ELSE [indent |-> <<>>, length |-> 0]

\* originalLine.match(/^(\s*)(\d+\.)\s+/): [indent, number, length of the whole
\* match], or length 0 if there is no match
nestedNumberMatch(line) ==
    LET k == spanOf(line, WhiteSpace)
        d == spanOf(sliceFrom(line, k + 1), Digits)
        m == spanOf(sliceFrom(line, k + d + 2), WhiteSpace)
    IN  IF d >= 1 /\ k + d + 1 <= Len(line) /\ line[k + d + 1] = "." /\ m >= 1
        THEN [indent |-> SubSeq(line, 1, k),
              number |-> SubSeq(line, k + 1, k + d + 1),
              length |-> k + d + 1 + m]
        ELSE [indent |-> <<>>, number |-> <<>>, length |-> 0]

\* '  ' followed by 31 box-drawing horizontal bars
RuleWidth == 31
RuleText == <<" ", " ">> \o [i \in 1..RuleWidth |-> HBAR]

Fence == <<BT, BT, BT>>

\* formatCodeBlock(content, lang)
formatCodeBlock(content, lang) ==
    LET trimmed == trim(content)
        lines == split(trimmed)
        formatted == join([i \in 1..Len(lines) |->
                        colorize(<<" ", " ", BAR, " ">>, colors.brightBlack)
                            \o colorize(lines[i], colors.brightWhite)])
        topBorder == colorize(<<" ", " ", CORNER_TOP>>
                                \o (IF lang # <<>> THEN <<HBAR, " ">> \o lang \o <<" ">>
                                    ELSE <<>>),
                              colors.brightBlack)
        bottomBorder == colorize(<<" ", " ", CORNER_BOT>>, colors.brightBlack)
    IN  IF ~shouldColorize THEN trimmed
        ELSE topBorder \o <<NL>> \o formatted \o <<NL>> \o bottomBorder

\* Mutant of renderBlock: the headings are looked for on the line as the
\* inline rules have left it
renderBlockOnTransformed(originalLine, line, bullet, number) ==
    IF startsWith(line, <<"#", "#", "#", " ">>)
    THEN [kind |-> "h3",
          out |-> colorize(<<" ", " ">> \o sliceFrom(line, 5), colors.cyan)]
    ELSE IF startsWith(line, <<"#", "#", " ">>)
    THEN [kind |-> "h2",
          out |-> colorize(sliceFrom(line, 4), colors.bold \o colors.cyan)]
    ELSE IF startsWith(line, <<"#", " ">>)
    THEN [kind |-> "h1",
          out |-> colorize(sliceFrom(line, 3), colors.bold \o colors.brightCyan)]
    ELSE IF isHorizontalRule(originalLine)
    THEN [kind |-> "rule",
          out |-> colorize(RuleText, colors.brightBlack)]
    ELSE IF bullet.length # 0
    THEN [kind |-> "bullet",
          out |-> bullet.indent \o colorize(<<BULLET, " ">>, colors.brightBlack)
                    \o sliceFrom(line, bullet.length + 1)]
    ELSE IF number.length # 0
    THEN [kind |-> "number",
          out |-> number.indent
                    \o colorize(number.number \o <<" ">>, colors.brightBlack)
                    \o sliceFrom(line, number.length + 1)]
    ELSE IF startsWith(originalLine, <<">", " ">>)
    THEN [kind |-> "quote",
          out |-> colorize(<<" ", " ", BAR, " ">>, colors.brightBlack)
                    \o sliceFrom(line, 3)]
    ELSE [kind |-> "plain", out |-> line]

\* Mutant of renderBlock: the bullet match is used without testing that the
\* expression has matched
renderBlockUntestedMatch(originalLine, line, bullet, number) ==
    IF startsWith(originalLine, <<"#", "#", "#", " ">>)
    THEN [kind |-> "h3",
          out |-> colorize(<<" ", " ">> \o sliceFrom(line, 5), colors.cyan)]
    ELSE IF startsWith(originalLine, <<"#", "#", " ">>)
    THEN [kind |-> "h2",
          out |-> colorize(sliceFrom(line, 4), colors.bold \o colors.cyan)]
    ELSE IF startsWith(originalLine, <<"#", " ">>)
    THEN [kind |-> "h1",
          out |-> colorize(sliceFrom(line, 3), colors.bold \o colors.brightCyan)]
    ELSE IF isHorizontalRule(originalLine)
    THEN [kind |-> "rule",
          out |-> colorize(RuleText, colors.brightBlack)]
    ELSE [kind |-> "bullet",
          out |-> bullet.indent \o colorize(<<BULLET, " ">>, colors.brightBlack)
                    \o sliceFrom(line, bullet.length + 1)]

\* The block rules of formatLine: originalLine is the line as received, line
\* the same line after the inline rules, bullet and number the two list
\* matches on originalLine.
\* [out |-> the returned text, kind |-> the block rule that fired]
renderBlock(originalLine, line, bullet, number) ==
    IF startsWith(originalLine, <<"#", "#", "#", " ">>)
    THEN [kind |-> "h3",
          out |-> colorize(<<" ", " ">> \o sliceFrom(line, 5), colors.cyan)]
    ELSE IF startsWith(originalLine, <<"#", "#", " ">>)
    THEN [kind |-> "h2",
          out |-> colorize(sliceFrom(line, 4), colors.bold \o colors.cyan)]
    ELSE IF startsWith(originalLine, <<"#", " ">>)
    THEN [kind |-> "h1",
          out |-> colorize(sliceFrom(line, 3), colors.bold \o colors.brightCyan)]
    ELSE IF isHorizontalRule(originalLine)
    THEN [kind |-> "rule",
          out |-> colorize(RuleText, colors.brightBlack)]
    ELSE IF bullet.length # 0
    THEN [kind |-> "bullet",
          out |-> bullet.indent \o colorize(<<BULLET, " ">>, colors.brightBlack)
                    \o sliceFrom(line, bullet.length + 1)]
    ELSE IF number.length # 0
    THEN [kind |-> "number",
          out |-> number.indent
                    \o colorize(number.number \o <<" ">>, colors.brightBlack)
                    \o sliceFrom(line, number.length + 1)]
    ELSE IF startsWith(originalLine, <<">", " ">>)
    THEN [kind |-> "quote",
          out |-> colorize(<<" ", " ", BAR, " ">>, colors.brightBlack)
                    \o sliceFrom(line, 3)]
    ELSE [kind |-> "plain", out |-> line]

\* The part of formatLine that renders a line outside a fence: the inline
\* rules, then the first block rule that fits originalLine
renderLine(originalLine) ==
    renderBlock(originalLine, inlineTransform(originalLine),
                nestedBulletMatch(originalLine), nestedNumberMatch(originalLine))

\* The formatter's fields as one record
fmtState(b, i, l, c) ==
    [buffer |-> b, inCodeBlock |-> i, codeBlockLang |-> l, codeBlockContent |-> c]

\* Mutant of formatLine: a closing line emits the block and leaves the code
\* block open with its content
formatLineCloseKeepsOpen(st, line) ==
    IF startsWith(line, Fence)
    THEN IF st.inCodeBlock
         THEN [st |-> st,
               out |-> formatCodeBlock(st.codeBlockContent, st.codeBlockLang),
               kind |-> "fenceClose"]
         ELSE [st |-> fmtState(st.buffer, TRUE, trim(sliceFrom(line, 4)),
                               st.codeBlockContent),
               out |-> <<>>,
               kind |-> "fenceOpen"]
    ELSE IF st.inCodeBlock
    THEN [st |-> fmtState(st.buffer, TRUE, st.codeBlockLang,
                          st.codeBlockContent \o line \o <<NL>>),
          out |-> <<>>,
          kind |-> "fenceBody"]
    ELSE [st |-> st] @@ renderLine(line)

\* formatLine(line) called in state st:
\* [st |-> the state it leaves, out |-> the returned text, kind |-> the rule]
formatLine(st, line) ==
    IF startsWith(line, Fence)
    THEN IF st.inCodeBlock
         THEN [st |-> fmtState(st.buffer, FALSE, <<>>, <<>>),
               out |-> formatCodeBlock(st.codeBlockContent, st.codeBlockLang),
               kind |-> "fenceClose"]
         ELSE [st |-> fmtState(st.buffer, TRUE, trim(sliceFrom(line, 4)),
                               st.codeBlockContent),
               out |-> <<>>,
               kind |-> "fenceOpen"]
    ELSE IF st.inCodeBlock
    THEN [st |-> fmtState(st.buffer, TRUE, st.codeBlockLang,
                          st.codeBlockContent \o line \o <<NL>>),
          out |-> <<>>,
          kind |-> "fenceBody"]
    ELSE [st |-> st] @@ renderLine(line)

----------------------------------------------------------------------------
(* MarkdownFormatter.formatChunk and flush                                 *)

\* One formatLine call as lineLog records it: the line, the state it was
\* called in and what it returned
logEntry(st, line, r) ==
    [line |-> line, inFence |-> st.inCodeBlock, content |-> st.codeBlockContent,
     lang |-> st.codeBlockLang, kind |-> r.kind, out |-> r.out]

\* The while (true) loop of formatChunk: buf is this.buffer, processed the
\* position after the last newline consumed.  lineDone is the body of the loop
\* once formatLine has returned r for the line that ends at newlineIndex.
RECURSIVE processLines(_, _, _, _, _)
lineDone(st, buf, newlineIndex, output, log, line, r) ==
    processLines(r.st, buf, newlineIndex + 1, output \o r.out \o <<NL>>,
                 Append(log, logEntry(st, line, r)))

lineFound(st, buf, newlineIndex, output, log, line) ==
    lineDone(st, buf, newlineIndex, output, log, line, formatLine(st, line))

processLines(st, buf, processed, output, log) ==
    LET newlineIndex == indexOf(buf, NL, processed)
    IN  IF newlineIndex = 0
        THEN [st |-> st, processed |-> processed, output |-> output, log |-> log]
        ELSE lineFound(st, buf, newlineIndex, output, log,
                       SubSeq(buf, processed, newlineIndex - 1))

\* Mutant of keepRemaining: the pending text is given up whenever it ends with
\* three backticks, a code block being open or not
keepRemainingAnyFence(r, rest) ==
    IF endsWith(rest, Fence)
    THEN [st |-> fmtState(<<>>, FALSE, <<>>, <<>>),
          out |-> r.output \o (IF r.st.inCodeBlock
                               THEN formatCodeBlock(r.st.codeBlockContent,
                                                    r.st.codeBlockLang)
                               ELSE <<>>),
          log |-> r.log,
          tailClose |-> TRUE]
    ELSE [st |-> fmtState(rest, r.st.inCodeBlock, r.st.codeBlockLang,
                          r.st.codeBlockContent),
          out |-> r.output,
          log |-> r.log,
          tailClose |-> FALSE]

\* Mutant of keepRemaining: closing the code block resets inCodeBlock and the
\* buffer only
keepRemainingKeepsContent(r, rest) ==
    IF endsWith(rest, Fence) /\ r.st.inCodeBlock
    THEN [st |-> fmtState(<<>>, FALSE, r.st.codeBlockLang, r.st.codeBlockContent),
          out |-> r.output \o formatCodeBlock(r.st.codeBlockContent,
                                              r.st.codeBlockLang),
          log |-> r.log,
          tailClose |-> TRUE]
    ELSE [st |-> fmtState(rest, r.st.inCodeBlock, r.st.codeBlockLang,
                          r.st.codeBlockContent),
          out |-> r.output,
          log |-> r.log,
          tailClose |-> FALSE]

\* The end of formatChunk, after the loop left r: keep the rest of buf, and
\* close the code block if that rest ends with three backticks.
\* [st |-> the state formatChunk leaves, out |-> the returned text, log |-> the
\*  formatLine calls made, tailClose |-> whether the closing branch was taken]
keepRemaining(r, rest) ==
    IF endsWith(rest, Fence) /\ r.st.inCodeBlock
    THEN [st |-> fmtState(<<>>, FALSE, <<>>, <<>>),
          out |-> r.output \o formatCodeBlock(r.st.codeBlockContent,
                                              r.st.codeBlockLang),
          log |-> r.log,
          tailClose |-> TRUE]
    ELSE [st |-> fmtState(rest, r.st.inCodeBlock, r.st.codeBlockLang,
                          r.st.codeBlockContent),
          out |-> r.output,
          log |-> r.log,
          tailClose |-> FALSE]

\* Mutant of afterLoop: the processed lines are not removed from the buffer
afterLoopKeepsLines(r, buf) == keepRemaining(r, buf)

afterLoop(r, buf) == keepRemaining(r, sliceFrom(buf, r.processed))

\* Mutant of formatChunk: the check of config.ui.markdown is missing
formatChunkNoBypass(st, c) ==
    afterLoop(processLines(st, st.buffer \o c, 1, <<>>, <<>>), st.buffer \o c)

\* Mutant of formatChunk: the chunk is added to the buffer before
\* config.ui.markdown is looked at
formatChunkBuffersFirst(st, c) ==
    IF ~markdown
    THEN [st |-> fmtState(st.buffer \o c, st.inCodeBlock, st.codeBlockLang,
                          st.codeBlockContent),
          out |-> c, log |-> <<>>, tailClose |-> FALSE]
    ELSE afterLoop(processLines(st, st.buffer \o c, 1, <<>>, <<>>), st.buffer \o c)

\* Mutant of formatChunk: the chunk replaces the buffer instead of extending it
formatChunkDropsPending(st, c) ==
    IF ~markdown
    THEN [st |-> st, out |-> c, log |-> <<>>, tailClose |-> FALSE]
    ELSE afterLoop(processLines(st, c, 1, <<>>, <<>>), c)

\* formatChunk(chunk) called in state st
formatChunk(st, c) ==
    IF ~markdown
    THEN [st |-> st, out |-> c, log |-> <<>>, tailClose |-> FALSE]
    ELSE afterLoop(processLines(st, st.buffer \o c, 1, <<>>, <<>>), st.buffer \o c)

\* flush() outside a code block, formatLine having returned r for the buffer
flushLine(st, r) ==
    [st |-> fmtState(<<>>, r.st.inCodeBlock, r.st.codeBlockLang,
                     r.st.codeBlockContent),
     out |-> r.out,
     log |-> <<logEntry(st, st.buffer, r)>>]

\* Mutant of flush: the buffer is not cleared
flushKeepsBuffer(st) ==
    IF st.buffer = <<>>
    THEN [st |-> st, out |-> <<>>, log |-> <<>>]
    ELSE IF st.inCodeBlock
    THEN [st |-> fmtState(st.buffer, TRUE, st.codeBlockLang,
                          st.codeBlockContent \o st.buffer),
          out |-> formatCodeBlock(st.codeBlockContent \o st.buffer,
                                  st.codeBlockLang),
          log |-> <<>>]
    ELSE [st |-> st, out |-> formatLine(st, st.buffer).out, log |-> <<>>]

\* flush() called in state st: [st, out, log] as for formatChunk
flush(st) ==
    IF st.buffer = <<>>
    THEN [st |-> st, out |-> <<>>, log |-> <<>>]
    ELSE IF st.inCodeBlock
    THEN [st |-> fmtState(<<>>, TRUE, st.codeBlockLang,
                          st.codeBlockContent \o st.buffer),
          out |-> formatCodeBlock(st.codeBlockContent \o st.buffer,
                                  st.codeBlockLang),
          log |-> <<>>]
    ELSE flushLine(st, formatLine(st, st.buffer))

\* new MarkdownFormatter(config)
newFormatter == fmtState(<<>>, FALSE, <<>>, <<>>)

\* The formatter's fields in the current state
cur == fmtState(buffer, inCodeBlock, codeBlockLang, codeBlockContent)

----------------------------------------------------------------------------
(* The configuration (models.ts): loadConfig, parseConfig, saveConfig,     *)
(* setConfigValue, resetConfig.  A JavaScript value is a record of its     *)
(* typeof t and its value v; a number is counted in tenths, so that 0.7 is *)
(* the number 7 and 1 the number 10.                                       *)

Str(s) == [t |-> "string", v |-> s]
Num(tenths) == [t |-> "number", v |-> tenths]
Bool(b) == [t |-> "boolean", v |-> b]
Undefined == [t |-> "undefined", v |-> <<>>]
EmptyObject == [t |-> "object", v |-> <<>>]
\* Infinity (sign 1) and -Infinity (sign -1); null, whose typeof is object
Infinite(sign) == [t |-> "number", v |-> sign, inf |-> TRUE]
Null == [t |-> "object", v |-> <<"null">>]
isInfinite(x) == "inf" \in DOMAIN x
\* x < n and x > n for a number x and a finite n in tenths
lessThan(x, n) == IF isInfinite(x) THEN x.v < 0 ELSE x.v < n
greaterThan(x, n) == IF isInfinite(x) THEN x.v > 0 ELSE x.v > n

gemini == <<"g", "e", "m", "i", "n", "i", "-", "2", ".">>
flash == <<"-", "f", "l", "a", "s", "h">>
lite == <<"-", "l", "i", "t", "e">>

SUPPORTED_MODELS ==
    { gemini \o <<"0">> \o flash \o lite,
      gemini \o <<"0">> \o flash,
      gemini \o <<"5">> \o flash \o lite,
      gemini \o <<"5">> \o flash }

DEFAULT_MODEL == gemini \o <<"0">> \o flash

isSupportedModel(model) == model \in SUPPORTED_MODELS

DEFAULT_CONFIG ==
    [ apiKey      |-> Undefined,
      model       |-> Str(DEFAULT_MODEL),
      maxTokens   |-> Num(81920),
      temperature |-> Num(7),
      ui          |-> [colors |-> Bool(TRUE), spinner |-> Bool(TRUE),
                       markdown |-> Bool(TRUE)] ]

\* The value of the digit d
digitValue(d) ==
    CASE d = "0" -> 0 [] d = "1" -> 1 [] d = "2" -> 2 [] d = "3" -> 3 [] d = "4" -> 4
      [] d = "5" -> 5 [] d = "6" -> 6 [] d = "7" -> 7 [] d = "8" -> 8 [] d = "9" -> 9

\* The value of the decimal digits s, read after the digits worth acc
RECURSIVE digitsValue(_, _)
digitsValue(s, acc) ==
    IF s = <<>> THEN acc ELSE digitsValue(Tail(s), 10 * acc + digitValue(Head(s)))

\* Number(value): white space around the text is dropped; the empty text is 0;
\* decimal digits with an optional sign are their value; Infinity with an
\* optional sign is infinite; any other text made of the characters used here
\* (letters, digits, - and space; no ., no exponent, no 0x) is NaN.
\* [nan |-> whether the result is NaN, inf |-> whether it is infinite,
\*  v |-> the number in tenths, or the sign of the infinite number]
Number(value) ==
    LET text == trim(value)
        signed == text # <<>> /\ Head(text) \in {"-", "+"}
        sign == IF signed /\ Head(text) = "-" THEN -1 ELSE 1
        digits == IF signed THEN Tail(text) ELSE text
    IN  IF text = <<>> THEN [nan |-> FALSE, inf |-> FALSE, v |-> 0]
        ELSE IF digits # <<>> /\ spanOf(digits, Digits) = Len(digits)
        THEN [nan |-> FALSE, inf |-> FALSE, v |-> sign * 10 * digitsValue(digits, 0)]
        ELSE IF digits = <<"I", "n", "f", "i", "n", "i", "t", "y">>
        THEN [nan |-> FALSE, inf |-> TRUE, v |-> sign]
        ELSE [nan |-> TRUE, inf |-> FALSE, v |-> 0]

\* The conversion at the end of setConfigValue: value === 'true' ? true :
\* value === 'false' ? false : !isNaN(Number(value)) ? Number(value) : value
typedValue(value) ==
    IF value = <<"t", "r", "u", "e">> THEN Bool(TRUE)
    ELSE IF value = <<"f", "a", "l", "s", "e">> THEN Bool(FALSE)
    ELSE IF Number(value).nan THEN Str(value)
    ELSE IF Number(value).inf THEN Infinite(Number(value).v)
    ELSE Num(Number(value).v)

\* parseConfig(raw, validateValues): whether it throws, and the Config it
\* returns otherwise.  raw.ui is an object in every call the model makes.
parseConfig(obj, validateValues) ==
    LET typesOk ==
            /\ obj.model.t = "string"
            /\ obj.maxTokens.t = "number"
            /\ obj.temperature.t = "number"
            /\ obj.ui.colors.t = "boolean"
            /\ obj.ui.spinner.t = "boolean"
            /\ obj.ui.markdown.t = "boolean"
            /\ obj.apiKey.t \in {"undefined", "string"}
        valuesOk ==
            /\ isSupportedModel(obj.model.v)
            /\ ~lessThan(obj.maxTokens, 10)
            /\ ~(lessThan(obj.temperature, 0) \/ greaterThan(obj.temperature, 10))
    IN  [threw |-> ~(typesOk /\ (validateValues => valuesOk)), config |-> obj]

\* The file system: config.json is missing, or holds JSON.stringify(config),
\* which leaves out the fields that are undefined
noFile == [exists |-> FALSE, data |-> DEFAULT_CONFIG]
\* JSON.stringify then JSON.parse of a number: a number that is not finite is
\* written as null
jsonNumber(x) == IF x.t = "number" /\ isInfinite(x) THEN Null ELSE x

\* JSON.parse(JSON.stringify(config)) for a config that has passed parseConfig
jsonRoundTrip(config) ==
    [config EXCEPT !.maxTokens = jsonNumber(config.maxTokens),
                   !.temperature = jsonNumber(config.temperature)]

fileWith(config) == [exists |-> TRUE, data |-> jsonRoundTrip(config)]

\* loadConfig(): the defaults if there is no file; otherwise the parsed file
\* merged over the defaults, a field the file leaves out taking its default
loadConfig(file) ==
    IF ~file.exists THEN [threw |-> FALSE, config |-> DEFAULT_CONFIG]
    ELSE parseConfig(file.data, TRUE)

\* saveConfig(config) with the file as it is:
\* [threw |-> whether it throws, file |-> the file it leaves]
saveConfig(file, config) ==
    IF parseConfig(config, TRUE).threw
    THEN [threw |-> TRUE, file |-> file]
    ELSE [threw |-> FALSE, file |-> fileWith(config)]

\* The assignment target[lastKey] = typed of setConfigValue, keys being
\* key.split('.'): a top-level field, a field of ui, or a field of the object
\* the walk has created for a first key that was undefined
assignKey(config, keys, typed) ==
    IF Len(keys) = 1 THEN [config EXCEPT ![keys[1]] = typed]
    ELSE IF keys[1] = "ui"
    THEN [config EXCEPT !.ui = [config.ui EXCEPT ![keys[2]] = typed]]
    ELSE [config EXCEPT ![keys[1]] = EmptyObject]

\* The walk through the nested keys throws ("is not an object") on a first
\* key that names a string or a number
walkThrows(config, keys) ==
    Len(keys) = 2 /\ keys[1] # "ui" /\ config[keys[1]].t # "undefined"

\* setConfigValue(key, value), config being what its loadConfig() returned
setLoaded(file, config, keys, value) ==
    IF walkThrows(config, keys) \/ keys[Len(keys)] = ""
    THEN [threw |-> TRUE, file |-> file]
    ELSE saveConfig(file, assignKey(config, keys, typedValue(value)))

\* setConfigValue(key, value) with the file as it is
setConfigValue(file, keys, value) ==
    IF loadConfig(file).threw THEN [threw |-> TRUE, file |-> file]
    ELSE setLoaded(file, loadConfig(file).config, keys, value)

\* resetConfig()
resetConfig(file) == saveConfig(file, DEFAULT_CONFIG)

----------------------------------------------------------------------------
(* The texts a stream delivers                                             *)

\* Largest number of pieces a text is made of
MaxPieces == 3
\* Largest number of flush calls
MaxFlush == 2

\* All concatenations of at most n members of the set P of strings
RECURSIVE Concats(_, _)
Concats(P, n) ==
    IF n = 0 THEN {<<>>}
    ELSE LET shorter == Concats(P, n - 1)
         IN  shorter \cup {t \o q : t \in shorter, q \in P}

\* Fence delimiters, a language or code word, an indented code line, line ends
FencePieces == {Fence, Fence \o <<NL>>, <<NL>>, <<"a">>, <<" ", "a", NL>>}

FenceTexts == Concats(FencePieces, MaxPieces)

\* Rules, emphasis, headings and fences
MarkupPieces == {<<"-", "-", "-">>, <<NL>>, <<"*", "*">>, <<"a">>, <<"#", " ">>,
                 Fence \o <<NL>>}

MarkupTexts == Concats(MarkupPieces, MaxPieces)

BoldText == <<"*", "*", "b", "o", "l", "d", "*", "*", NL>>

----------------------------------------------------------------------------
(* The formatter driven by arbitrary calls                                 *)

\* The configuration file that makes loadConfig() return these ui settings:
\* none for the defaults, a saved one otherwise
fileFor(md, col) ==
    IF md /\ col THEN noFile
    ELSE fileWith([DEFAULT_CONFIG EXCEPT !.ui.markdown = Bool(md),
                                         !.ui.colors = Bool(col)])

InitConfig ==
    /\ markdown \in BOOLEAN
    /\ uiColors \in BOOLEAN
    /\ stdoutIsTTY \in BOOLEAN
    /\ configFile = fileFor(markdown, uiColors)
    /\ configOp = [op |-> "none", keys |-> <<>>, value |-> <<>>, threw |-> FALSE,
                   before |-> configFile]
    /\ nConfigOps = 0

InitFormatter ==
    /\ buffer = <<>>
    /\ inCodeBlock = FALSE
    /\ codeBlockLang = <<>>
    /\ codeBlockContent = <<>>
    /\ fed = <<>>
    /\ out = <<>>
    /\ lastOp = "none"
    /\ chunk = <<>>
    /\ ret = <<>>
    /\ pre = newFormatter
    /\ lineLog = <<>>
    /\ nFlush = 0
    /\ flushRun = <<>>
    /\ nOpened = 0
    /\ nEmitted = 0

InitNoMain ==
    /\ pc = "api"
    /\ spinner = "null"
    /\ firstChunk = TRUE
    /\ hasChunks = FALSE
    /\ nFormatters = 1
    /\ delivered = <<>>
    /\ passed = <<>>
    /\ stdout = <<>>
    /\ events = <<>>
    /\ errorShown = FALSE

InitWith(texts) ==
    /\ InitConfig
    /\ InitFormatter
    /\ InitNoMain
    /\ todo \in texts

\* The number of formatLine calls of the log that the rule kind answered
countKind(log, kind) == Cardinality({k \in 1..Len(log) : log[k].kind = kind})

\* The number of formatCodeBlock calls made by the call op that returned r:
\* one for each closing line, one if formatChunk closed the block on the
\* pending buffer, one if flush found text pending inside a code block
blocksEmitted(op, r) ==
    countKind(r.log, "fenceClose")
        + (IF op = "formatChunk"
           THEN (IF r.tailClose THEN 1 ELSE 0)
           ELSE (IF buffer # <<>> /\ inCodeBlock THEN 1 ELSE 0))

\* A call of the formatter returned r: its effect on the fields of the
\* formatter, and the record of the call
returned(op, c, r) ==
    /\ buffer' = r.st.buffer
    /\ inCodeBlock' = r.st.inCodeBlock
    /\ codeBlockLang' = r.st.codeBlockLang
    /\ codeBlockContent' = r.st.codeBlockContent
    /\ out' = out \o r.out
    /\ lastOp' = op
    /\ chunk' = c
    /\ ret' = r.out
    /\ pre' = cur
    /\ lineLog' = r.log
    /\ nOpened' = nOpened + countKind(r.log, "fenceOpen")
    /\ nEmitted' = nEmitted + blocksEmitted(op, r)

\* formatter.formatChunk(c)
callFormatChunk(c) ==
    /\ returned("formatChunk", c, formatChunk(cur, c))
    /\ fed' = fed \o c
    /\ flushRun' = <<>>
    /\ UNCHANGED nFlush

\* formatter.flush()
callFlush ==
    /\ returned("flush", <<>>, flush(cur))
    /\ nFlush' = nFlush + 1
    /\ flushRun' = Append(flushRun, ret')
    /\ UNCHANGED fed

\* formatter.formatChunk(c), c the next n characters of the text.  The caller
\* keeps to the protocol of the formatter: chunks first, then flush.
FormatChunk ==
    /\ pc = "api"
    /\ nFlush = 0
    /\ \E n \in 0..Len(todo) :
        /\ callFormatChunk(SubSeq(todo, 1, n))
        /\ todo' = sliceFrom(todo, n + 1)
    /\ UNCHANGED <<cfgVars, mainVars>>

\* formatter.flush()
Flush ==
    /\ pc = "api"
    /\ nFlush < MaxFlush
    /\ callFlush
    /\ UNCHANGED <<cfgVars, mainVars, todo>>

Next == FormatChunk \/ Flush

Init == InitWith(FenceTexts)

Spec == Init /\ [][Next]_vars

InitMarkup == InitWith(MarkupTexts)

SpecMarkup == InitMarkup /\ [][Next]_vars

InitBold == InitWith({BoldText})

SpecBold == InitBold /\ [][Next]_vars

\* Heading, list, quote and rule markers, emphasis, a word, a line end, a
\* fence line
BlockPieces ==
    { <<"#">>, <<"#", " ">>, <<"*", " ">>, <<"1", ".", " ">>, <<">", " ">>,
      <<"-", "-", "-">>, <<"*", "*">>, <<"a">>, <<NL>>, Fence \o <<NL>>,
      <<"-", " ">> }

BlockTexts == Concats(BlockPieces, MaxPieces)

\* Markdown is enabled and stdout is a terminal; colours are on or off
InitBlocks == InitWith(BlockTexts) /\ markdown /\ stdoutIsTTY

SpecBlocks == InitBlocks /\ [][Next]_vars

\* Inline spans: bold, italic of one and of two characters, inline code,
\* strikethrough, the two halves of a link; a space, a line end; the list,
\* heading, number and quote markers
InlinePieces ==
    { <<"*", "*", "a", "*", "*">>, <<"*", "a", "*">>, <<"*", "a", "b", "*">>,
      <<BT, "a", BT>>, <<"~", "~", "a", "~", "~">>, <<"[", "a">>,
      <<"]", "(", "b", ")">>, <<" ">>, <<NL>>,
      <<"*", " ">>, <<"#", " ">>, <<"1", ".", " ">>, <<">", " ">> }

InlineTexts == Concats(InlinePieces, MaxPieces)

\* Markdown is enabled and stdout is a terminal; colours are on or off
InitInline == InitWith(InlineTexts) /\ markdown /\ stdoutIsTTY

SpecInline == InitInline /\ [][Next]_vars

\* formatter.formatChunk(c) by a caller that does not keep to the protocol: the
\* call may also come after a flush
FormatChunkAnyTime ==
    /\ pc = "api"
    /\ \E n \in 0..Len(todo) :
        /\ callFormatChunk(SubSeq(todo, 1, n))
        /\ todo' = sliceFrom(todo, n + 1)
    /\ UNCHANGED <<cfgVars, mainVars>>

NextAnyOrder == FormatChunkAnyTime \/ Flush

\* A fence line with a language, a bare fence line, a bare fence delimiter, a
\* line of text
AnyOrderPieces == {Fence \o <<"a", NL>>, Fence \o <<NL>>, Fence, <<"a", NL>>}

AnyOrderTexts == Concats(AnyOrderPieces, MaxPieces)

InitAnyOrder == InitWith(AnyOrderTexts)

SpecAnyOrder == InitAnyOrder /\ [][NextAnyOrder]_vars

----------------------------------------------------------------------------
(* main (index.ts): the prompt path.  A step runs from one await to the    *)
(* next; the signal handlers run between steps.                            *)

\* Largest number of chunks result.textStream yields
MaxStream == 3

\* Words, line ends, emphasis and fence delimiters
MainPieces == {<<"a">>, <<NL>>, <<"*", "*">>, Fence}

MainTexts == Concats(MainPieces, MaxPieces)

InitMain ==
    /\ InitConfig
    /\ InitFormatter
    /\ todo \in MainTexts
    /\ pc = "createSpinner"
    /\ spinner = "null"
    /\ firstChunk = TRUE
    /\ hasChunks = FALSE
    /\ nFormatters = 0
    /\ delivered = <<>>
    /\ passed = <<>>
    /\ stdout = <<>>
    /\ events = <<>>
    /\ errorShown = FALSE

\* createSpinner(message): null unless stdout is a terminal
createSpinner == IF stdoutIsTTY THEN "created" ELSE "null"

\* spinner?.start() and spinner?.stop()
spinnerStart(sp) == IF sp = "null" THEN "null" ELSE "spinning"

\* Mutant of spinnerStop: stop() leaves the spinner as it is
spinnerStopLeavesSpinning(sp) == sp

spinnerStop(sp) == IF sp = "null" THEN "null" ELSE "stopped"

\* Mutant of writeTail: the newline is written before the flushed text
writeTailNewlineFirst(remaining) == <<NL>> \o remaining

\* What main writes to stdout after the loop: the flushed text if it is not
\* empty, then the newline
writeTail(remaining) == remaining \o <<NL>>

\* const spinner = createSpinner('Thinking...'); spinner?.start();
MainStartSpinner ==
    /\ pc = "createSpinner"
    /\ spinner' = spinnerStart(createSpinner)
    /\ events' = Append(events, "spinnerStart")
    /\ pc' = "loadConfig"
    /\ UNCHANGED <<cfgVars, fmtVars, histVars, firstChunk, hasChunks, nFormatters,
                   delivered, passed, stdout, errorShown>>

\* const config = await loadConfig(); const formatter = new MarkdownFormatter(config);
MainLoadConfig ==
    /\ pc = "loadConfig"
    /\ buffer' = newFormatter.buffer
    /\ inCodeBlock' = newFormatter.inCodeBlock
    /\ codeBlockLang' = newFormatter.codeBlockLang
    /\ codeBlockContent' = newFormatter.codeBlockContent
    /\ nFormatters' = nFormatters + 1
    /\ events' = Append(events, "newFormatter")
    /\ pc' = "sendPrompt"
    /\ UNCHANGED <<cfgVars, histVars, spinner, firstChunk, hasChunks, delivered,
                   passed, stdout, errorShown>>

\* const result = await sendPrompt(...)
MainSendPrompt ==
    /\ pc = "sendPrompt"
    /\ pc' = "stream"
    /\ UNCHANGED <<cfgVars, fmtVars, histVars, spinner, firstChunk, hasChunks,
                   nFormatters, delivered, passed, stdout, events, errorShown>>

\* One turn of for await (const chunk of result.textStream)
MainChunk ==
    /\ pc = "stream"
    /\ Len(delivered) < MaxStream
    /\ \E n \in 0..Len(todo) :
        LET c == SubSeq(todo, 1, n)
        IN  /\ todo' = sliceFrom(todo, n + 1)
            /\ delivered' = Append(delivered, c)
            /\ hasChunks' = TRUE
            /\ spinner' = IF firstChunk THEN spinnerStop(spinner) ELSE spinner
            /\ firstChunk' = FALSE
            /\ callFormatChunk(c)
            /\ passed' = Append(passed, c)
            /\ stdout' = stdout \o ret'
            /\ events' = events \o (IF firstChunk THEN <<"spinnerStop">> ELSE <<>>)
                                \o <<"formatChunk">>
                                \o (IF ret' # <<>> THEN <<"write">> ELSE <<>>)
    /\ UNCHANGED <<cfgVars, pc, nFormatters, errorShown>>

\* The stream is done: the statements from the end of the loop to the timing
\* statistics, which main runs without awaiting anything
MainStreamEnd ==
    /\ pc = "stream"
    /\ todo = <<>>
    /\ callFlush
    /\ spinner' = spinnerStop(spinner)
    /\ stdout' = stdout \o writeTail(ret')
    /\ events' = events \o (IF ~hasChunks /\ firstChunk THEN <<"spinnerStop">> ELSE <<>>)
                        \o <<"flush">>
                        \o (IF ret' # <<>> THEN <<"write">> ELSE <<>>)
                        \o <<"spinnerStop", "newline">>
    /\ pc' = "usage"
    /\ UNCHANGED <<cfgVars, todo, firstChunk, hasChunks, nFormatters, delivered,
                   passed, errorShown>>

\* if (opts.verbose) { const usage = await result.usage; ... }
MainUsage ==
    /\ pc = "usage"
    /\ pc' = "done"
    /\ UNCHANGED <<cfgVars, fmtVars, histVars, spinner, firstChunk, hasChunks,
                   nFormatters, delivered, passed, stdout, events, errorShown>>

\* catch (error) { handleError(error, opts.debug) }: an await of the try block
\* throws; handleError prints and calls process.exit(1)
MainCatch ==
    /\ pc \in {"loadConfig", "sendPrompt", "stream", "usage"}
    /\ errorShown' = TRUE
    /\ events' = Append(events, "handleError")
    /\ pc' = "exit1"
    /\ UNCHANGED <<cfgVars, fmtVars, histVars, spinner, firstChunk, hasChunks,
                   nFormatters, delivered, passed, stdout>>

\* process.on('SIGINT' / 'SIGTERM'): write a newline and exit(0)
Signal ==
    /\ pc \in {"createSpinner", "loadConfig", "sendPrompt", "stream", "usage"}
    /\ stdout' = stdout \o <<NL>>
    /\ events' = Append(events, "signal")
    /\ pc' = "exit0"
    /\ UNCHANGED <<cfgVars, fmtVars, histVars, spinner, firstChunk, hasChunks,
                   nFormatters, delivered, passed, errorShown>>

NextMain ==
    \/ MainStartSpinner
    \/ MainLoadConfig
    \/ MainSendPrompt
    \/ MainChunk
    \/ MainStreamEnd
    \/ MainUsage
    \/ MainCatch
    \/ Signal

SpecMain == InitMain /\ [][NextMain]_vars

----------------------------------------------------------------------------
(* ai config set <key> <value> and ai config reset, run one after another  *)

\* Largest number of config commands run
MaxConfigOps == 2

ConfigKeys ==
    { <<"apiKey">>, <<"model">>, <<"maxTokens">>, <<"temperature">>,
      <<"ui", "colors">>, <<"ui", "markdown">>, <<"model", "x">>, <<"apiKey", "x">> }

ConfigValues ==
    { <<"t", "r", "u", "e">>, <<"f", "a", "l", "s", "e">>, <<"1">>, <<"0">>,
      <<"2", "0">>, <<"s", "k", "-", "1">>, <<" ">>, gemini \o <<"5">> \o flash,
      <<"I", "n", "f", "i", "n", "i", "t", "y">> }

\* A config command has run with the outcome r
configDone(op, keys, value, r) ==
    /\ configFile' = r.file
    /\ configOp' = [op |-> op, keys |-> keys, value |-> value, threw |-> r.threw,
                    before |-> configFile]
    /\ nConfigOps' = nConfigOps + 1

\* ai config set <key> <value>
SetConfigValue ==
    /\ pc = "api"
    /\ nConfigOps < MaxConfigOps
    /\ \E keys \in ConfigKeys, value \in ConfigValues :
           configDone("set", keys, value, setConfigValue(configFile, keys, value))
    /\ UNCHANGED <<uiVars, fmtVars, histVars, mainVars>>

\* ai config reset
ResetConfig ==
    /\ pc = "api"
    /\ nConfigOps < MaxConfigOps
    /\ configDone("reset", <<>>, <<>>, resetConfig(configFile))
    /\ UNCHANGED <<uiVars, fmtVars, histVars, mainVars>>

NextConfig == SetConfigValue \/ ResetConfig

InitConfigOnly ==
    /\ InitConfig
    /\ InitFormatter
    /\ InitNoMain
    /\ todo = <<>>

SpecConfig == InitConfigOnly /\ [][NextConfig]_vars

----------------------------------------------------------------------------
(* Properties                                                              *)

\* The text of one formatChunk call followed by flush, from a new formatter
oneShotOut(r) == r.out \o flush(r.st).out
oneShot(text) == oneShotOut(formatChunk(newFormatter, text))

\* The lines accumulated in the content of a code block
contentLines(content) ==
    IF content = <<>> THEN <<>>
    ELSE IF content[Len(content)] = NL
    THEN split(SubSeq(content, 1, Len(content) - 1))
    ELSE split(content)

\* The positions of the event e in main's record of events
eventsAt(e) == {i \in 1..Len(events) : events[i] = e}

ThreeDashes == <<"-", "-", "-">>

\* C1 -- Chunk-boundary independence: with markdown enabled, however a text is
\* split into chunks, the formatChunk outputs followed by the flush output
\* equal the output of feeding the whole text as one chunk and flushing.
C1_ChunkBoundaryIndependence ==
    (markdown /\ lastOp = "flush" /\ nFlush = 1) => out = oneShot(fed)

\* C2 -- An unterminated fence is not lost: when flush is called with a fence
\* open and content lines accumulated, what flush returns contains every
\* accumulated content line (compared without surrounding white space).
C2_UnterminatedFenceSurfaces ==
    (lastOp = "flush" /\ Len(flushRun) = 1 /\ pre.inCodeBlock
        /\ pre.codeBlockContent # <<>>)
    => \A k \in 1..Len(contentLines(pre.codeBlockContent)) :
           contains(ret, trim(contentLines(pre.codeBlockContent)[k]))

\* C3 -- Bypass: with config.ui.markdown false every formatChunk call returns
\* exactly its chunk and every flush returns the empty string.
C3_Bypass ==
    ~markdown => /\ lastOp = "formatChunk" => ret = chunk
                 /\ lastOp = "flush" => ret = <<>>

\* A bypassed stream holding a fence has been passed through and flushed
C3_Witness ==
    /\ ~markdown
    /\ lastOp = "flush"
    /\ contains(fed, Fence)
    /\ out = fed

\* C4 -- Flush idempotence: of flush calls made in a row, only the first may
\* return text; every later one returns the empty string.
C4_FlushIdempotent ==
    \A k \in 2..Len(flushRun) : flushRun[k] = <<>>

\* Two flush calls in a row, the first of which ended the stream inside an open
\* fence and returned text
C4_Witness ==
    /\ Len(flushRun) = 2
    /\ flushRun[1] # <<>>
    /\ inCodeBlock

\* C5 -- Fenced content is verbatim: when a line closes a fence, the block it
\* emits holds every line accumulated since the fence opened, character for
\* character.
C5_FencedVerbatim ==
    \A k \in 1..Len(lineLog) :
        lineLog[k].kind = "fenceClose"
        => \A n \in 1..Len(contentLines(lineLog[k].content)) :
               contains(lineLog[k].out, contentLines(lineLog[k].content)[n])

\* C6 -- Bordered block on fence close: the block a closing line emits has a top
\* border, which carries the fence language when there is one, and a bottom
\* border, with colours enabled or not.
C6_BorderedBlock ==
    \A k \in 1..Len(lineLog) :
        lineLog[k].kind = "fenceClose"
        => /\ hasChar(lineLog[k].out, CORNER_TOP)
           /\ hasChar(lineLog[k].out, CORNER_BOT)
           /\ lineLog[k].lang # <<>> => contains(lineLog[k].out, lineLog[k].lang)

\* C7 -- With no fence open, a line that is exactly --- is rendered as the fixed
\* decorative rule, and what is returned for it holds no dash.
C7_RuleNeverDashes ==
    \A k \in 1..Len(lineLog) :
        (lineLog[k].line = ThreeDashes /\ ~lineLog[k].inFence)
        => /\ lineLog[k].kind = "rule"
           /\ lineLog[k].out = colorize(RuleText, colors.brightBlack)
           /\ ~hasChar(lineLog[k].out, "-")
           /\ contains(ret, lineLog[k].out)

\* A --- line that was split across two chunks has been rendered
C7_Witness ==
    /\ lastOp = "formatChunk"
    /\ chunk = <<"-", NL>>
    /\ \E k \in 1..Len(lineLog) :
           lineLog[k].line = ThreeDashes /\ ~lineLog[k].inFence

\* C8 -- Bold span across a chunk boundary: however **bold** and its newline
\* are cut into chunks, the formatChunk outputs together equal the output of
\* the one-chunk call, which is the word bold in the bold style followed by
\* the newline, with no asterisk left.
C8_BoldAcrossChunks ==
    (markdown /\ fed = BoldText /\ nFlush = 0)
    => /\ out = formatChunk(newFormatter, BoldText).out
       /\ out = colorize(<<"b", "o", "l", "d">>, colors.bold) \o <<NL>>
       /\ ~hasChar(out, "*")

\* The text has been fed as **bo and ld** with the newline, colours enabled
C8_Witness ==
    /\ markdown
    /\ shouldColorize
    /\ nFlush = 0
    /\ fed = BoldText
    /\ pre.buffer = <<"*", "*", "b", "o">>
    /\ chunk = <<"l", "d", "*", "*", NL>>

\* C9 -- Styling gate: the output holds an escape sequence only if
\* config.ui.colors is true and stdout is a terminal.
C9_StylingGate ==
    hasChar(out, ESC) => (uiColors /\ stdoutIsTTY)

\* Colours are configured but stdout is no terminal, and a rule line that
\* would be styled has been rendered
C9_Witness ==
    /\ markdown
    /\ uiColors
    /\ ~stdoutIsTTY
    /\ \E k \in 1..Len(lineLog) : lineLog[k].kind = "rule"

\* C10 -- Caller protocol: once main has written the trailing newline, every
\* chunk of the stream has been passed to formatChunk in arrival order by one
\* formatter, flush has been called once, after the last formatChunk, and the
\* newline was written after the flushed text.
C10_CallerProtocol ==
    eventsAt("newline") # {}
    => /\ passed = delivered
       /\ nFormatters = 1
       /\ nFlush = 1
       /\ lastOp = "flush"
       /\ Cardinality(eventsAt("flush")) = 1
       /\ Cardinality(eventsAt("newline")) = 1
       /\ \A i \in eventsAt("formatChunk") : \A j \in eventsAt("flush") : i < j
       /\ \A i \in eventsAt("flush") : \A j \in eventsAt("newline") : i < j
       /\ pc # "exit0" => stdout = out \o <<NL>>

\* main is done after two chunks or more, the flush having returned text
C10_Witness ==
    /\ pc = "done"
    /\ markdown
    /\ Len(delivered) >= 2
    /\ ret # <<>>

\* C11 -- ai config set apiKey <key>: for every key that is not empty, digits
\* only and the words true and false included, setConfigValue succeeds and the
\* loadConfig that follows returns that key as apiKey.
C11_ApiKeyRoundTrip ==
    (configOp.op = "set" /\ configOp.keys = <<"apiKey">> /\ configOp.value # <<>>)
    => /\ ~configOp.threw
       /\ ~loadConfig(configFile).threw
       /\ loadConfig(configFile).config.apiKey.t = "string"
       /\ loadConfig(configFile).config.apiKey.v = configOp.value

\* s is a string: a sequence of characters
isString(s) == \A i \in 1..Len(s) : s[i] \in STRING

\* C12 -- Totality: whatever the chunks (empty, without newline, with many
\* newlines, with unmatched delimiters or unterminated fences), every
\* formatChunk and flush call returns a string and leaves string fields, and
\* no call reads the groups of a match that is null, which would raise.
C12_Totality ==
    /\ isString(ret)
    /\ isString(buffer)
    /\ isString(codeBlockLang)
    /\ isString(codeBlockContent)
    /\ inCodeBlock \in BOOLEAN
    /\ \A k \in 1..Len(lineLog) :
           /\ isString(lineLog[k].out)
           /\ lineLog[k].kind = "bullet"
                  => nestedBulletMatch(lineLog[k].line).length # 0
           /\ lineLog[k].kind = "number"
                  => nestedNumberMatch(lineLog[k].line).length # 0

\* A stream that ended inside a fence, its last line holding an unmatched
\* bold delimiter, has been flushed
C12_Witness ==
    /\ markdown
    /\ lastOp = "flush"
    /\ pre.inCodeBlock
    /\ endsWith(pre.buffer, <<"*", "*">>)
    /\ ret # <<>>

\* C13 -- After every formatChunk call and every flush call the pending
\* buffer holds no newline.
C13_NoNewlinePending == ~hasChar(buffer, NL)

\* A chunk holding a newline has been fed and left a partial line pending
C13_Witness ==
    /\ markdown
    /\ lastOp = "formatChunk"
    /\ hasChar(chunk, NL)
    /\ buffer # <<>>

\* C14 -- Fence-state invariant: in every state any sequence of formatChunk
\* and flush calls reaches, codeBlockContent is non-empty only while
\* inCodeBlock is true, and codeBlockLang is empty whenever inCodeBlock is
\* false.
C14_FenceStateInvariant ==
    /\ codeBlockContent # <<>> => inCodeBlock
    /\ ~inCodeBlock => codeBlockLang = <<>>

\* A fence with a language and content, opened after a flush, has been closed
C14_Witness ==
    /\ nFlush >= 1
    /\ lastOp = "formatChunk"
    /\ pre.inCodeBlock
    /\ pre.codeBlockLang # <<>>
    /\ pre.codeBlockContent # <<>>
    /\ ~inCodeBlock

\* C15 -- While a fence is open, formatChunk closes it only by processing a
\* complete line that starts with three backticks: a call that finds the fence
\* open and leaves it closed has processed such a line, a pending partial line
\* never closes the fence, and a complete line that does not start with three
\* backticks is appended to the fence content.
C15_FenceClosesOnLineOnly ==
    /\ (lastOp = "formatChunk" /\ pre.inCodeBlock /\ ~inCodeBlock)
           => \E k \in 1..Len(lineLog) : lineLog[k].kind = "fenceClose"
    /\ \A k \in 1..Len(lineLog) :
           (lastOp = "formatChunk" /\ lineLog[k].inFence
               /\ ~startsWith(lineLog[k].line, Fence))
           => lineLog[k].kind = "fenceBody"

\* C16 -- Opening a fence: when formatChunk, with no fence open and nothing
\* pending, is given exactly one complete line that starts with three
\* backticks, the fence is open afterwards, its language is the trimmed text
\* after the first three backticks, and the call returns no character.
C16_FenceOpenSilent ==
    (markdown /\ lastOp = "formatChunk" /\ ~pre.inCodeBlock /\ pre.buffer = <<>>
        /\ startsWith(chunk, Fence) /\ indexOf(chunk, NL, 1) = Len(chunk))
    => /\ inCodeBlock
       /\ codeBlockLang = trim(SubSeq(chunk, 4, Len(chunk) - 1))
       /\ ret = <<>>

\* C17 -- flush drains the whole state: after flush returns, the buffer is
\* empty, no fence is open, and the fence content and language are empty.
C17_FlushDrains ==
    lastOp = "flush"
    => /\ buffer = <<>>
       /\ ~inCodeBlock
       /\ codeBlockContent = <<>>
       /\ codeBlockLang = <<>>

\* C18 -- A chunk without a newline, fed with markdown enabled while no fence
\* is open, makes formatChunk return the empty string, is appended to the
\* buffer, and leaves inCodeBlock, codeBlockLang and codeBlockContent as they
\* were; the zero-length chunk leaves the whole state as it was, in every
\* state.
C18_NoNewlineChunkFrame ==
    /\ (markdown /\ lastOp = "formatChunk" /\ ~hasChar(chunk, NL)
           /\ ~pre.inCodeBlock)
           => /\ ret = <<>>
              /\ buffer = pre.buffer \o chunk
              /\ inCodeBlock = pre.inCodeBlock
              /\ codeBlockLang = pre.codeBlockLang
              /\ codeBlockContent = pre.codeBlockContent
    /\ (lastOp = "formatChunk" /\ chunk = <<>>)
           => /\ ret = <<>>
              /\ cur = pre

\* Three backticks without a newline have been fed outside a fence, on top of
\* pending text, after a flush
C18_Witness ==
    /\ markdown
    /\ nFlush >= 1
    /\ lastOp = "formatChunk"
    /\ chunk = Fence
    /\ ~pre.inCodeBlock
    /\ pre.buffer # <<>>

\* C19 -- Bypass touches no state: with config.ui.markdown false, after any
\* sequence of formatChunk and flush calls the buffer, inCodeBlock,
\* codeBlockLang and codeBlockContent have their initial values.
C19_BypassTouchesNoState == ~markdown => cur = newFormatter

\* Bypassed chunks holding fences and newlines have been fed before and after
\* a flush
C19_Witness ==
    /\ ~markdown
    /\ nFlush >= 1
    /\ lastOp = "formatChunk"
    /\ hasChar(chunk, NL)
    /\ contains(fed, Fence)
    /\ fed # chunk

\* The block rules in their priority order, and whether the untransformed line
\* fits a rule
BlockRules == <<"h3", "h2", "h1", "rule", "bullet", "number", "quote", "plain">>

fitsRule(rule, line) ==
    CASE rule = "h3" -> startsWith(line, <<"#", "#", "#", " ">>)
      [] rule = "h2" -> startsWith(line, <<"#", "#", " ">>)
      [] rule = "h1" -> startsWith(line, <<"#", " ">>)
      [] rule = "rule" -> isHorizontalRule(line)
      [] rule = "bullet" -> nestedBulletMatch(line).length # 0
      [] rule = "number" -> nestedNumberMatch(line).length # 0
      [] rule = "quote" -> startsWith(line, <<">", " ">>)
      [] rule = "plain" -> TRUE

\* C20 -- Block classification: every line processed outside a fence is
\* rendered by exactly one block rule, the first in the order heading (###,
\* ##, #), horizontal rule, unordered item, ordered item, blockquote, plain
\* paragraph that the untransformed line fits, with colours on or off.
C20_BlockClassification ==
    \A k \in 1..Len(lineLog) :
        (~lineLog[k].inFence /\ ~startsWith(lineLog[k].line, Fence))
        => \E n \in 1..Len(BlockRules) :
               /\ lineLog[k].kind = BlockRules[n]
               /\ fitsRule(BlockRules[n], lineLog[k].line)
               /\ \A m \in 1..(n - 1) : ~fitsRule(BlockRules[m], lineLog[k].line)

\* With colours off, a line whose bold span holds a heading marker, so that
\* the transformed line starts like a heading, has been rendered as a paragraph
C20_Witness ==
    /\ ~shouldColorize
    /\ \E k \in 1..Len(lineLog) :
           /\ lineLog[k].line = <<"*", "*", "#", " ", "*", "*">>
           /\ lineLog[k].kind = "plain"
           /\ lineLog[k].out = <<"#", " ">>

\* The line is optional white space, then * or -, then a space, then anything
isListItemLine(line) ==
    LET k == spanOf(line, WhiteSpace)
    IN  k + 2 <= Len(line) /\ line[k + 1] \in {"*", "-"} /\ line[k + 2] = " "

\* C21 -- Unordered list items: a line outside a fence made of optional
\* leading white space, then * or - followed by a space, is rendered with the
\* styled bullet in place of the marker and its leading white space kept, for
\* the - marker as for the * marker.
C21_UnorderedListItem ==
    \A k \in 1..Len(lineLog) :
        (~lineLog[k].inFence /\ isListItemLine(lineLog[k].line))
        => /\ lineLog[k].kind = "bullet"
           /\ startsWith(lineLog[k].out,
                         SubSeq(lineLog[k].line, 1, spanOf(lineLog[k].line, WhiteSpace))
                            \o colorize(<<BULLET, " ">>, colors.brightBlack))
           /\ ~startsWith(trimStart(lineLog[k].out), <<"-", " ">>)

\* The line is optional white space, three or more repetitions of one of the
\* characters - * _, optional white space, and nothing else
isRepeatedRuleLine(line) ==
    LET t == trim(line)
    IN  /\ Len(t) >= 3
        /\ t[1] \in RuleChars
        /\ \A i \in 1..Len(t) : t[i] = t[1]

\* C22 -- Horizontal-rule recognition: a line outside a fence is rendered as
\* the fixed decorative rule if and only if it is optional leading white
\* space, three or more repetitions of one character among - * _, optional
\* trailing white space, and nothing else.
C22_RuleRecognition ==
    \A k \in 1..Len(lineLog) :
        (~lineLog[k].inFence /\ ~startsWith(lineLog[k].line, Fence))
        => ((lineLog[k].kind = "rule" /\ lineLog[k].out = colorize(RuleText, colors.brightBlack))
               <=> isRepeatedRuleLine(lineLog[k].line))

\* The escape sequences of the colour table
EscapeSequences ==
    { colors.reset, colors.bold, colors.dim, colors.yellow, colors.cyan,
      colors.brightBlack, colors.brightBlue, colors.brightCyan, colors.brightWhite }

\* Every ESC of s starts an escape sequence of the colour table
escapesIntact(s) ==
    \A i \in 1..Len(s) :
        s[i] = ESC => \E e \in EscapeSequences : startsWith(sliceFrom(s, i), e)

\* C23 -- Inline rules never re-scan generated output: with colours enabled,
\* the escape sequences an inline rule has inserted reach the output whole;
\* no later rule matches or alters one, and the [ of an escape sequence is not
\* taken as the start of a link.
C23_EscapesNotRescanned ==
    shouldColorize
    => \A k \in 1..Len(lineLog) : escapesIntact(lineLog[k].out)

\* The line is one span of text between two single asterisks, the text holding
\* no asterisk, no white space and no other markup character
isItalicSpan(line) ==
    /\ Len(line) >= 3
    /\ line[1] = "*"
    /\ line[Len(line)] = "*"
    /\ \A i \in 2..(Len(line) - 1) :
           line[i] \notin (WhiteSpace \cup {"*", BT, "~", "[", "]", "#", ">"})

\* C24 -- Italic rule: a line outside a fence that is text wrapped in a pair
\* of single asterisks, of one character or more, is rendered as that text
\* without the two asterisks; the asterisks of a bold span and the asterisk of a
\* leading list marker are not taken by the italic rule.
C24_ItalicRule ==
    \A k \in 1..Len(lineLog) :
        ~lineLog[k].inFence
        => /\ isItalicSpan(lineLog[k].line)
                  => lineLog[k].out = SubSeq(lineLog[k].line, 2, Len(lineLog[k].line) - 1)
           /\ lineLog[k].line = <<"*", "*", "a", "*", "*">>
                  => lineLog[k].out = colorize(<<"a">>, colors.bold)
           /\ startsWith(lineLog[k].line, <<"*", " ">>)
                  => startsWith(lineLog[k].out,
                                colorize(<<BULLET, " ">>, colors.brightBlack))

\* The configuration the last config command has passed to saveConfig
attemptedConfig ==
    IF configOp.op = "reset" THEN DEFAULT_CONFIG
    ELSE assignKey(loadConfig(configOp.before).config, configOp.keys,
                   typedValue(configOp.value))

\* The last config command has reached its saveConfig call
reachedSave ==
    \/ configOp.op = "reset"
    \/ /\ configOp.op = "set"
       /\ ~loadConfig(configOp.before).threw
       /\ ~walkThrows(loadConfig(configOp.before).config, configOp.keys)

\* C25 -- saveConfig validates before it writes: when the configuration handed
\* to saveConfig fails validation the command raises an error and the file is
\* left as it was; after a save that succeeded, loadConfig returns the saved
\* values.
C25_ValidateBeforeWrite ==
    /\ configOp.threw => configFile = configOp.before
    /\ reachedSave
           => /\ parseConfig(attemptedConfig, TRUE).threw => configOp.threw
              /\ ~configOp.threw
                     => /\ ~loadConfig(configFile).threw
                        /\ loadConfig(configFile).config = attemptedConfig

\* The text after the last newline of s: the pending partial line
RECURSIVE afterLastNewline(_)
afterLastNewline(s) ==
    LET i == indexOf(s, NL, 1)
    IN  IF i = 0 THEN s ELSE afterLastNewline(sliceFrom(s, i + 1))

\* The text that stands before the three backticks a pending line ends with
beforeFence(rest) == SubSeq(rest, 1, Len(rest) - Len(Fence))

\* C26 -- No buffered text is discarded by formatChunk: after a call the
\* pending partial line is still in the buffer, or it ended with three
\* backticks that closed the fence and the text before them has gone to the
\* output.
C26_NoPendingTextDiscarded ==
    (markdown /\ lastOp = "formatChunk")
    => \/ buffer = afterLastNewline(pre.buffer \o chunk)
       \/ /\ endsWith(afterLastNewline(pre.buffer \o chunk), Fence)
          /\ \/ beforeFence(afterLastNewline(pre.buffer \o chunk)) = <<>>
             \/ contains(ret, beforeFence(afterLastNewline(pre.buffer \o chunk)))

\* C27 -- Each fence is emitted at most once: over formatChunk calls followed
\* by flush calls, no more code blocks have been emitted than fences have
\* been opened, so that the content of one fence is in one block at most,
\* whichever of the closing line, the pending three backticks and flush
\* emits it.
C27_FenceEmittedOnce == nEmitted <= nOpened

\* A fence left open by the stream has been emitted by the first of two flush
\* calls
C27_Witness ==
    /\ nFlush = 2
    /\ nOpened >= 1
    /\ nEmitted = nOpened
    /\ flushRun[1] # <<>>
    /\ inCodeBlock

\* The length of the marker that the block rule kind has matched on the line
markerLength(kind, line) ==
    CASE kind = "h3" -> 4
      [] kind = "h2" -> 3
      [] kind = "h1" -> 2
      [] kind = "quote" -> 2
      [] kind = "bullet" -> nestedBulletMatch(line).length
      [] kind = "number" -> nestedNumberMatch(line).length

\* The inline rules leave the first p characters of the line where they are
\* and give the rest what they give it on its own
markerAligned(line, p) ==
    /\ startsWith(inlineTransform(line), SubSeq(line, 1, p))
    /\ sliceFrom(inlineTransform(line), p + 1) = inlineTransform(sliceFrom(line, p + 1))

\* C28 -- Marker stripping is aligned: for every line rendered by a heading,
\* list, number or quote rule, the inline rules leave the marker matched on
\* the untransformed line unchanged at the start of the transformed line, so
\* that slicing by the length of the marker removes the marker only and cuts
\* neither content nor an escape sequence.
C28_MarkerAligned ==
    \A k \in 1..Len(lineLog) :
        (~lineLog[k].inFence
            /\ lineLog[k].kind \in {"h3", "h2", "h1", "quote", "bullet", "number"})
        => markerAligned(lineLog[k].line,
                         markerLength(lineLog[k].kind, lineLog[k].line))

\* With colours on, a list item whose text is an italic span has been rendered
C28_Witness ==
    /\ shouldColorize
    /\ \E k \in 1..Len(lineLog) :
           /\ lineLog[k].line = <<"*", " ", "*", "a", "b", "*">>
           /\ lineLog[k].kind = "bullet"
           /\ lineLog[k].out
                  = colorize(<<BULLET, " ">>, colors.brightBlack) \o <<"a", "b">>

\* The positions at which main has written formatted output, flushed output
\* or the trailing newline to stdout
outputEvents == eventsAt("write") \cup eventsAt("newline")

\* C29 -- Spinner before output: the spinner is stopped before main writes the
\* first formatted chunk, or for an empty stream the flushed text and the
\* trailing newline, to stdout, and it is not started again afterwards.
C29_SpinnerBeforeOutput ==
    /\ outputEvents # {} => spinner # "spinning"
    /\ \A i \in outputEvents : \E j \in eventsAt("spinnerStop") : j < i
    /\ \A i \in eventsAt("spinnerStart") : \A j \in eventsAt("spinnerStop") : i < j

\* On a terminal, main is done after a stream whose chunks were written
C29_Witness ==
    /\ stdoutIsTTY
    /\ pc = "done"
    /\ spinner = "stopped"
    /\ Len(delivered) >= 1
    /\ eventsAt("write") # {}

\* C30 -- Spinner always stopped: once main has started the spinner, it is
\* stopped before the process writes an error message or exits, on every
\* path, handleError after a throw of sendPrompt or of the stream included.
C30_SpinnerAlwaysStopped ==
    (errorShown \/ pc \in {"exit0", "exit1", "done"}) => spinner # "spinning"

====
